---------------------------- MODULE Spec2Model ----------------------------
(***************************************************************************)
(* Model of test_interpreter_completion.py: the conformance harness that   *)
(* runs five checks against ./build/tocin, records one boolean per check   *)
(* and maps the totals to the process exit status.                          *)
(*                                                                         *)
(* Texts are sequences of one-character strings, so that str.lower() and   *)
(* the substring operator `in` are computed character by character.        *)
(* The target executable and the filesystem are the environment: what a    *)
(* child process prints, which code it exits with, whether it exits at     *)
(* all, and whether creating or writing the temporary file succeeds are    *)
(* chosen nondeterministically at each call.                               *)
(***************************************************************************)
EXTENDS Integers, Sequences, FiniteSets, TLC

(***************************************************************************)
(* Bounds of the environment.                                              *)
(***************************************************************************)
\* exit codes 0..MaxExitCode are produced by the target, besides a crash
MaxExitCode == 1
\* a crash is reported by subprocess as the negated signal number
CrashSignal == 11
ExitCodes == (0..MaxExitCode) \cup {-CrashSignal}

(***************************************************************************)
(* Characters and texts.                                                   *)
(***************************************************************************)
UpperChars == <<"A", "B", "C", "D", "E", "F", "G", "H", "I", "J", "K", "L", "M",
                "N", "O", "P", "Q", "R", "S", "T", "U", "V", "W", "X", "Y", "Z">>
LowerChars == <<"a", "b", "c", "d", "e", "f", "g", "h", "i", "j", "k", "l", "m",
                "n", "o", "p", "q", "r", "s", "t", "u", "v", "w", "x", "y", "z">>

\* str.lower() on one ASCII character
LowerChar(c) ==
    IF \E i \in 1..26 : UpperChars[i] = c
    THEN LowerChars[CHOOSE i \in 1..26 : UpperChars[i] = c]
    ELSE c

\* a comparison that forgets to fold the case
Lower_Unchanged(s) == s

\* str.lower(): line 99, result.stderr.lower()
Lower(s) == [i \in 1..Len(s) |-> LowerChar(s[i])]

\* the operator `in` on strings: sub in s  (lines 69 and 99)
Contains(sub, s) ==
    \E i \in 1..(Len(s) - Len(sub) + 1) : SubSeq(s, i, i + Len(sub) - 1) = sub

\* required_features, lines 53-65
required_features ==
    << <<"O", "p", "t", "i", "o", "n", "/", "R", "e", "s", "u", "l", "t", " ", "t", "y", "p", "e", "s">>,
       <<"T", "r", "a", "i", "t", "s">>,
       <<"O", "w", "n", "e", "r", "s", "h", "i", "p">>,
       <<"N", "u", "l", "l", " ", "s", "a", "f", "e", "t", "y">>,
       <<"C", "o", "n", "c", "u", "r", "r", "e", "n", "c", "y">>,
       <<"a", "s", "y", "n", "c", "/", "a", "w", "a", "i", "t">>,
       <<"M", "a", "c", "r", "o", " ", "s", "y", "s", "t", "e", "m">>,
       <<"F", "F", "I", " ", "s", "u", "p", "p", "o", "r", "t">>,
       <<"J", "a", "v", "a", "S", "c", "r", "i", "p", "t">>,
       <<"P", "y", "t", "h", "o", "n">>,
       <<"C", "+", "+">> >>

\* the two rejection markers of line 99
MarkerUnknownOption == <<"u", "n", "k", "n", "o", "w", "n", " ", "o", "p", "t", "i", "o", "n">>
MarkerUnrecognized == <<"u", "n", "r", "e", "c", "o", "g", "n", "i", "z", "e", "d">>

\* flags_to_test, lines 81-92
flags_to_test ==
    << "--dump-ir", "-O0", "-O1", "-O2", "-O3", "--no-ffi", "--no-concurrency",
       "--enable-javascript", "--enable-python", "--enable-cpp" >>

\* the registry, lines 145-151
tests ==
    << "Binary Existence", "Help Output", "Feature Advertisement",
       "Compilation Flags", "Simple Compilation" >>

\* expected_returncode=0, line 10
ExpectedReturncode == 0
\* timeout=10, line 123; 0 stands for "no timeout argument"
SmokeTimeout == 10
NoTimeout == 0

(***************************************************************************)
(* What the target may print.                                              *)
(***************************************************************************)
\* stderr texts a flag probe may meet
ErrTexts ==
    << <<>>,
       <<"U", "n", "k", "n", "o", "w", "n", " ", "O", "p", "t", "i", "o", "n">>,
       <<"u", "n", "k", "n", "o", "w", "n", " ", "o", "p", "t", "i", "o", "n">>,
       <<"e", "r", "r", "o", "r", ":", " ", "u", "n", "r", "e", "c", "o", "g", "n", "i", "z", "e", "d", " ", "f", "l", "a", "g">>,
       <<"U", "N", "R", "E", "C", "O", "G", "N", "I", "Z", "E", "D">>,
       <<"n", "o", " ", "i", "n", "p", "u", "t", " ", "f", "i", "l", "e", "s">>,
       <<"u", "n", "k", "n", "o", "w", "n", "-", "o", "p", "t", "i", "o", "n">>,
       <<"u", "n", "r", "e", "c", "o", "g", "n", "i", "s", "e", "d">> >>
\* the text "Unknown Option" in mixed case
MixedCaseText == ErrTexts[2]

\* stdout texts a flag probe may meet: nothing, or a rejection marker on
\* the wrong stream
OutTexts == << <<>>, MarkerUnknownOption >>

\* first line of every help text; it holds a lower-case "python"
HelpHeader ==
    <<"t", "o", "c", "i", "n", " ", "-", "-", "e", "n", "a", "b", "l", "e", "-",
      "p", "y", "t", "h", "o", "n">>

RECURSIVE HelpFrom(_, _, _)
HelpFrom(i, omit, lower) ==
    IF i > Len(required_features) THEN <<>>
    ELSE (IF i = omit THEN <<>>
          ELSE <<"\n">> \o (IF i = lower THEN Lower(required_features[i])
                            ELSE required_features[i]))
         \o HelpFrom(i + 1, omit, lower)

\* A help text: the header and one line per feature, feature `omit` left
\* out and feature `lower` printed in lower case (0: none).
HelpText(omit, lower) == HelpHeader \o HelpFrom(1, omit, lower)

\* features printed in lower case by some help variant
LowerVariants == {2, 10}
HelpVariants ==
    {<<o, 0>> : o \in 0..Len(required_features)} \cup {<<0, l>> : l \in LowerVariants}


(***************************************************************************)
(* State.                                                                  *)
(***************************************************************************)
VARIABLES
    pc,          \* position of the single thread of control
    cur,         \* index in `tests` of the loop of line 154 (6: loop over)
    results,     \* the dict `results`: sequence of [name, value], insertion order
    ret,         \* value returned by the test action that just returned
    all_passed,  \* local of test_compilation_flags
    flagIdx,     \* position of the loop of line 95 in flags_to_test
    passed,      \* line 166
    total,       \* line 167
    exitStatus,  \* <<>> while the process runs, <<status>> after sys.exit
    binary,      \* ./build/tocin: "absent", "noexec", "unrunnable" or "ok"
    artifact,    \* test_simple_compile.to: "absent", "foreign", "empty", "written"
    proc,        \* the child process being waited for
    inv,         \* history: the last subprocess.run call that ended
    attempts,    \* history: every subprocess.run call, in order
    how,         \* history: how each test action ended
    executed,    \* history: number of test actions started
    recognized,  \* history: branch taken at lines 99-103 by the last probe
    numRejected, \* history: probes whose stderr held a marker, in any case
    report,      \* the lines printed by the loop of lines 169-171, in order
    world,       \* the environment: free, or a fixed behaviour of target and disk
    run,         \* number of the current run of the script
    prev,        \* history: results and exit status of the previous run
    artifact0,   \* history: state of test_simple_compile.to when the run began
    creations    \* history: successful open(test_file, "w") calls of the run

vars == << pc, cur, results, ret, all_passed, flagIdx, passed, total,
           exitStatus, binary, artifact, proc, inv, attempts, how, executed,
           recognized, numRejected, report, world, run, prev, artifact0,
           creations >>

NumTests == Len(tests)
NumFlags == Len(flags_to_test)
TestIds == 1..NumTests

\* the artifact's name, line 112
test_file == "test_simple_compile.to"

NoProc == [test |-> 0, arg |-> "", timeout |-> NoTimeout, fate |-> "none"]
NoInv == [test |-> 0, arg |-> "", kind |-> "none", code |-> 0,
          omit |-> 0, lower |-> 0, out |-> 1, err |-> 1]

(***************************************************************************)
(* Pure parts of the code.                                                 *)
(***************************************************************************)
\* a dict that puts a new key in front of the older ones
DictSet_NewestFirst(d, k, v) ==
    IF \E i \in 1..Len(d) : d[i].name = k
    THEN [i \in 1..Len(d) |-> IF d[i].name = k THEN [name |-> k, value |-> v] ELSE d[i]]
    ELSE << [name |-> k, value |-> v] >> \o d

\* results[k] = v on an insertion-ordered dict
DictSet(d, k, v) ==
    IF \E i \in 1..Len(d) : d[i].name = k
    THEN [i \in 1..Len(d) |-> IF d[i].name = k THEN [name |-> k, value |-> v] ELSE d[i]]
    ELSE Append(d, [name |-> k, value |-> v])

\* results = {test_name: r}: a new dict at every test
OnReturn_NewDict(d, name, r) == << [name |-> name, value |-> r] >>

\* lines 155-156: the action returned r
OnReturn(d, name, r) == DictSet(d, name, r)

\* a handler that reports the exception and records nothing
OnException_NoRecord(d, name) == d

\* a handler that records the raising test as passed
OnException_RecordTrue(d, name) == DictSet(d, name, TRUE)

\* lines 157-159: the action raised
OnException(d, name) == DictSet(d, name, FALSE)

\* line 166: sum(1 for v in results.values() if v)
CountPassed(d) == Cardinality({i \in 1..Len(d) : d[i].value})

\* a summary that is content with one passing test
Success_AnyPassed(p, t) == p >= 1

\* lines 169-171: one line per item of results, in the dict's order
SummaryLines(d) ==
    [i \in 1..Len(d) |->
        [name |-> d[i].name, status |-> IF d[i].value THEN "PASSED" ELSE "FAILED"]]

\* line 176: return passed == total
Success(p, t) == p = t

\* line 180: sys.exit(0 if success else 1)
ExitCode(success) == IF success THEN 0 ELSE 1

\* a comparison that only rejects codes above the expected one
RunCommandResult_AtMost(returncode, expected_returncode) ==
    IF returncode > expected_returncode THEN FALSE ELSE TRUE

\* lines 20-25 of run_command
RunCommandResult(returncode, expected_returncode) ==
    IF returncode # expected_returncode THEN FALSE ELSE TRUE

\* lines 32-41 of test_binary_exists
BinaryExistsResult(b) ==
    IF b = "absent" THEN FALSE             \* not os.path.exists
    ELSE IF b = "noexec" THEN FALSE        \* not os.access(.., X_OK)
    ELSE TRUE

\* lines 67-75: the loop over required_features, all_found carried along
RECURSIVE AllFoundFrom(_, _, _)
AllFoundFrom(i, stdout, all_found) ==
    IF i > Len(required_features) THEN all_found
    ELSE AllFoundFrom(i + 1, stdout,
                      IF Contains(required_features[i], stdout)
                      THEN all_found ELSE FALSE)

\* a loop whose flag is overwritten by each iteration: the last feature decides
AllFound_LastDecides(stdout) ==
    Contains(required_features[Len(required_features)], stdout)


AllFound(stdout) == AllFoundFrom(1, stdout, TRUE)

\* line 99: the condition under which a flag counts as not recognized
FlagRejected(stderr) ==
    \/ Contains(MarkerUnknownOption, Lower(stderr))
    \/ Contains(MarkerUnrecognized, Lower(stderr))

\* a smoke check that wants the compilation to succeed
SmokeResult_ZeroOnly(returncode) == returncode = 0

\* lines 126-127: any completion is a pass, whatever result.returncode
SmokeResult(returncode) == TRUE

\* lines 134-137: the finally clause
Finally(a) == IF a # "absent" THEN "absent" ELSE a

\* subprocess.run can start ./build/tocin
CanStart(b) == b = "ok"

(***************************************************************************)
(* Reference notions used by the properties (not code).                    *)
(***************************************************************************)
\* sub occurs in s when letters are compared without regard to case
ContainsAnyCase(sub, s) ==
    \E i \in 1..(Len(s) - Len(sub) + 1) :
        \A j \in 1..Len(sub) : LowerChar(s[i + j - 1]) = LowerChar(sub[j])

HasMarker(s) ==
    ContainsAnyCase(MarkerUnknownOption, s) \/ ContainsAnyCase(MarkerUnrecognized, s)

\* the help variant <<omit, lower>> prints every required feature verbatim
FullHelp(v) == v[1] = 0 /\ v[2] = 0

(***************************************************************************)
(* The judgments of the code on each text the target may print, computed   *)
(* once per text instead of once per step.                                 *)
(***************************************************************************)
\* line 99 applied to each stderr text
StderrRejected == [e \in DOMAIN ErrTexts |-> FlagRejected(ErrTexts[e])]

\* lines 67-75 applied to each help text
HelpAllFound == [v \in HelpVariants |-> AllFound(HelpText(v[1], v[2]))]

\* the reference notion on each stderr text
StderrMarked == [e \in DOMAIN ErrTexts |-> HasMarker(ErrTexts[e])]

(***************************************************************************)
(* The environment.  In the free world the target and the disk choose      *)
(* anew at every call.  A fixed world is an unchanged, deterministic       *)
(* target on an unchanged disk: what a call meets depends on its argument  *)
(* only, so that the script can be run again against the same world.       *)
(***************************************************************************)
\* stderr texts 1..MaxFixedErr are the ones a fixed target prints
MaxFixedErr == 3
\* the script is run at most MaxRuns times in a row against a fixed world
MaxRuns == 2

Outcome(fate, code, v, err) ==
    [fate |-> fate, code |-> code, omit |-> v[1], lower |-> v[2], out |-> 1, err |-> err]

\* a probe that exits with 0 and prints nothing
CleanOutcome == Outcome("exits", 0, <<0, 0>>, 1)
HangOutcome == Outcome("hangs", 0, <<0, 0>>, 1)

FixedHelpVariants == {v \in HelpVariants : v[1] \in {0, Len(required_features)}}
FixedHelpOutcomes ==
    {HangOutcome} \cup {Outcome("exits", c, v, 1) : c \in ExitCodes, v \in FixedHelpVariants}
FixedFlagOutcomes ==
    {HangOutcome} \cup {Outcome("exits", c, <<0, 0>>, e) : c \in ExitCodes, e \in 1..MaxFixedErr}
FixedSmokeOutcomes ==
    {HangOutcome} \cup {Outcome("exits", c, <<0, 0>>, 1) : c \in ExitCodes}
DiskFaults == {"none", "open", "write"}

FreeWorld ==
    [fixed |-> FALSE, help |-> CleanOutcome, odd |-> 0, oddOut |-> CleanOutcome,
     smoke |-> CleanOutcome, disk |-> "none"]

\* the flag a fixed target answers in its own way is the first or the last
OddPositions == {1, Len(flags_to_test)}

\* Fixed worlds: the answer to --help, the answer to the source file, the
\* disk, and at most one flag that is not answered by CleanOutcome.
FixedWorlds ==
    {[fixed |-> TRUE, help |-> h, odd |-> o, oddOut |-> oo, smoke |-> sm, disk |-> d] :
        h \in FixedHelpOutcomes, o \in {0}, oo \in {CleanOutcome},
        sm \in FixedSmokeOutcomes, d \in DiskFaults}
    \cup
    {[fixed |-> TRUE, help |-> h, odd |-> o, oddOut |-> oo, smoke |-> sm, disk |-> d] :
        h \in FixedHelpOutcomes, o \in OddPositions,
        oo \in FixedFlagOutcomes \ {CleanOutcome},
        sm \in FixedSmokeOutcomes, d \in DiskFaults}

\* what the fixed target does when called with arg
TargetSays(w, arg) ==
    IF arg = "--help" THEN w.help
    ELSE IF arg = "test_simple_compile.to" THEN w.smoke
    ELSE IF w.odd # 0 /\ arg = flags_to_test[w.odd] THEN w.oddOut
    ELSE CleanOutcome

\* the world lets a child called with arg have this fate
FateAllowed(w, arg, fate) == w.fixed => fate = TargetSays(w, arg).fate

\* the world lets a child called with arg exit with this code and output
ExitAllowed(w, arg, code, omit, lower, out, err) ==
    w.fixed => LET o == TargetSays(w, arg)
               IN  /\ code = o.code
                   /\ omit = o.omit
                   /\ lower = o.lower
                   /\ out = o.out
                   /\ err = o.err

\* the world lets creating the artifact fail this way
FaultAllowed(w, fault) == w.fixed => fault = w.disk

NoPrev == [results |-> <<>>, exitStatus |-> <<>>, artifact0 |-> "absent"]

(***************************************************************************)
(* Initial state: the process has entered run_all_tests, line 153 done.    *)
(***************************************************************************)
\* the state of a process of the script when it enters the loop of line 154
ProcessStart ==
    /\ pc = "loop"
    /\ cur = 1
    /\ results = <<>>
    /\ ret = FALSE
    /\ all_passed = TRUE
    /\ flagIdx = 1
    /\ passed = 0
    /\ total = 0
    /\ exitStatus = <<>>
    /\ proc = NoProc
    /\ inv = NoInv
    /\ attempts = <<>>
    /\ how = [t \in TestIds |-> "pending"]
    /\ executed = 0
    /\ recognized = TRUE
    /\ numRejected = 0
    /\ report = <<>>
    /\ creations = 0

\* the disk before the first run
DiskStart ==
    /\ binary \in {"absent", "noexec", "unrunnable", "ok"}
    /\ artifact \in {"absent", "foreign"}
    /\ artifact0 = artifact
    /\ run = 1
    /\ prev = NoPrev

Init ==
    /\ ProcessStart
    /\ DiskStart
    /\ world = FreeWorld

\* one run or more against a fixed world; a target that cannot be started
\* has no behaviour to fix
FixedInit ==
    /\ ProcessStart
    /\ DiskStart
    /\ world \in FixedWorlds
    /\ binary # "ok" =>
          /\ world.help = CleanOutcome
          /\ world.odd = 0
          /\ world.smoke = CleanOutcome

(***************************************************************************)
(* Fragments shared by the actions.                                        *)
(***************************************************************************)
\* the running test action returns v to line 156
Return(v) ==
    /\ ret' = v
    /\ pc' = "returned"
    /\ how' = [how EXCEPT ![cur] = IF v THEN "true" ELSE "false"]

\* an exception leaves the running test action
Raise ==
    /\ pc' = "raised"
    /\ how' = [how EXCEPT ![cur] = "raised"]
    /\ UNCHANGED ret

\* subprocess.run is called with ./build/tocin and one argument
Called(arg) == attempts' = Append(attempts, [test |-> cur, arg |-> arg])

\* ... and the child is started; whether it will ever exit is the target's
Started(arg, timeout) ==
    \E fate \in {"exits", "hangs"} :
        /\ FateAllowed(world, arg, fate)
        /\ proc' = [test |-> cur, arg |-> arg, timeout |-> timeout, fate |-> fate]

\* ... or cannot be started: FileNotFoundError, PermissionError, OSError
NotStarted(arg) ==
    /\ inv' = [NoInv EXCEPT !.test = cur, !.arg = arg, !.kind = "nostart"]
    /\ UNCHANGED proc

\* the child waited for has exited with the given code and output
Exited(code, omit, lower, out, err) ==
    /\ ExitAllowed(world, proc.arg, code, omit, lower, out, err)
    /\ inv' = [test |-> cur, arg |-> proc.arg, kind |-> "exit", code |-> code,
               omit |-> omit, lower |-> lower, out |-> out, err |-> err]
    /\ proc' = NoProc

Waiting(t) == pc = "wait" /\ proc.test = t

(***************************************************************************)
(* The orchestrator, run_all_tests.                                        *)
(***************************************************************************)
\* line 154-156: the next test action is called
StartTest ==
    /\ pc = "loop"
    /\ cur <= NumTests
    /\ pc' = <<"t1", "t2", "t3", "t4", "t5">>[cur]
    /\ executed' = executed + 1
    /\ UNCHANGED << cur, results, ret, all_passed, flagIdx, passed, total,
                    exitStatus, binary, artifact, proc, inv, attempts, how,
                    recognized, numRejected,
                    report, world, run, prev, artifact0, creations >>

\* line 156: the value returned is stored
RecordReturn ==
    /\ pc = "returned"
    /\ results' = OnReturn(results, tests[cur], ret)
    /\ cur' = cur + 1
    /\ pc' = "loop"
    /\ UNCHANGED << ret, all_passed, flagIdx, passed, total, exitStatus,
                    binary, artifact, proc, inv, attempts, how, executed,
                    recognized, numRejected,
                    report, world, run, prev, artifact0, creations >>

\* lines 157-159: except Exception
RecordException ==
    /\ pc = "raised"
    /\ results' = OnException(results, tests[cur])
    /\ cur' = cur + 1
    /\ pc' = "loop"
    /\ UNCHANGED << ret, all_passed, flagIdx, passed, total, exitStatus,
                    binary, artifact, proc, inv, attempts, how, executed,
                    recognized, numRejected,
                    report, world, run, prev, artifact0, creations >>

\* lines 161-176: the summary
Summarize ==
    /\ pc = "loop"
    /\ cur > NumTests
    /\ passed' = CountPassed(results)
    /\ total' = Len(results)
    /\ report' = SummaryLines(results)
    /\ pc' = "summary"
    /\ UNCHANGED << cur, results, ret, all_passed, flagIdx, exitStatus,
                    binary, artifact, proc, inv, attempts, how, executed,
                    recognized, numRejected,
                    world, run, prev, artifact0, creations >>

\* lines 176-180: success = (passed == total); sys.exit(0 if success else 1)
MainExit ==
    /\ pc = "summary"
    /\ exitStatus' = << ExitCode(Success(passed, total)) >>
    /\ pc' = "exited"
    /\ UNCHANGED << cur, results, ret, all_passed, flagIdx, passed, total,
                    binary, artifact, proc, inv, attempts, how, executed,
                    recognized, numRejected,
                    report, world, run, prev, artifact0, creations >>

(***************************************************************************)
(* Test 1: test_binary_exists, lines 27-41.  No process is started.        *)
(***************************************************************************)
TestBinaryExists ==
    /\ pc = "t1"
    /\ Return(BinaryExistsResult(binary))
    /\ UNCHANGED << cur, results, all_passed, flagIdx, passed, total,
                    exitStatus, binary, artifact, proc, inv, attempts,
                    executed, recognized, numRejected,
                    report, world, run, prev, artifact0, creations >>

(***************************************************************************)
(* Test 2: test_help_output, lines 43-46, through run_command, 10-25.      *)
(***************************************************************************)
\* line 13: subprocess.run(cmd, capture_output=True, text=True)
HelpSpawn ==
    /\ pc = "t2"
    /\ Called("--help")
    /\ IF CanStart(binary)
       THEN /\ Started("--help", NoTimeout)
            /\ pc' = "wait"
            /\ UNCHANGED << inv, how, ret >>
       ELSE /\ NotStarted("--help")
            /\ Raise
    /\ UNCHANGED << cur, results, all_passed, flagIdx, passed, total,
                    exitStatus, binary, artifact, executed, recognized,
                    numRejected,
                    report, world, run, prev, artifact0, creations >>

\* lines 14-25: the child has exited
HelpComplete ==
    /\ Waiting(2)
    /\ proc.fate = "exits"
    /\ \E code \in ExitCodes, v \in HelpVariants :
          /\ Exited(code, v[1], v[2], 1, 1)
          /\ Return(RunCommandResult(code, ExpectedReturncode))
    /\ UNCHANGED << cur, results, all_passed, flagIdx, passed, total,
                    exitStatus, binary, artifact, attempts, executed,
                    recognized, numRejected,
                    report, world, run, prev, artifact0, creations >>

(***************************************************************************)
(* Test 3: test_version_features, lines 48-75.                             *)
(***************************************************************************)
\* line 51
FeatureSpawn ==
    /\ pc = "t3"
    /\ Called("--help")
    /\ IF CanStart(binary)
       THEN /\ Started("--help", NoTimeout)
            /\ pc' = "wait"
            /\ UNCHANGED << inv, how, ret >>
       ELSE /\ NotStarted("--help")
            /\ Raise
    /\ UNCHANGED << cur, results, all_passed, flagIdx, passed, total,
                    exitStatus, binary, artifact, executed, recognized,
                    numRejected,
                    report, world, run, prev, artifact0, creations >>

\* lines 53-75
FeatureComplete ==
    /\ Waiting(3)
    /\ proc.fate = "exits"
    /\ \E v \in HelpVariants :
          LET all_found == HelpAllFound[v]
          IN  /\ \E code \in ExitCodes : Exited(code, v[1], v[2], 1, 1)
              /\ Return(all_found)
    /\ UNCHANGED << cur, results, all_passed, flagIdx, passed, total,
                    exitStatus, binary, artifact, attempts, executed,
                    recognized, numRejected,
                    report, world, run, prev, artifact0, creations >>

(***************************************************************************)
(* Test 4: test_compilation_flags, lines 77-105.                           *)
(***************************************************************************)
\* lines 81-95: all_passed = True, the loop starts
FlagsBegin ==
    /\ pc = "t4"
    /\ all_passed' = TRUE
    /\ flagIdx' = 1
    /\ pc' = "t4_loop"
    /\ UNCHANGED << cur, results, ret, passed, total, exitStatus, binary,
                    artifact, proc, inv, attempts, how, executed, recognized,
                    numRejected,
                    report, world, run, prev, artifact0, creations >>

\* line 97: subprocess.run(["./build/tocin"] + flag, ...)
FlagSpawn ==
    /\ pc = "t4_loop"
    /\ flagIdx <= NumFlags
    /\ Called(flags_to_test[flagIdx])
    /\ IF CanStart(binary)
       THEN /\ Started(flags_to_test[flagIdx], NoTimeout)
            /\ pc' = "wait"
            /\ UNCHANGED << inv, how, ret >>
       ELSE /\ NotStarted(flags_to_test[flagIdx])
            /\ Raise
    /\ UNCHANGED << cur, results, all_passed, flagIdx, passed, total,
                    exitStatus, binary, artifact, executed, recognized,
                    numRejected,
                    report, world, run, prev, artifact0, creations >>

\* a loop that stops probing at the first flag that is not recognized
FlagComplete_StopsAtRejection ==
    /\ Waiting(4)
    /\ proc.fate = "exits"
    /\ \E err \in DOMAIN ErrTexts :
          LET rejected == StderrRejected[err]
              marked == StderrMarked[err]
          IN  /\ \E code \in ExitCodes, out \in DOMAIN OutTexts :
                    Exited(code, 0, 0, out, err)
              /\ IF rejected
                 THEN all_passed' = FALSE /\ recognized' = FALSE
                      /\ flagIdx' = NumFlags + 1
                 ELSE all_passed' = all_passed /\ recognized' = TRUE
                      /\ flagIdx' = flagIdx + 1
              /\ numRejected' = numRejected + (IF marked THEN 1 ELSE 0)
    /\ pc' = "t4_loop"
    /\ UNCHANGED << cur, results, ret, passed, total, exitStatus, binary,
                    artifact, attempts, how, executed,
                    report, world, run, prev, artifact0, creations >>

\* lines 98-103: the probe has exited and its stderr is judged
FlagComplete ==
    /\ Waiting(4)
    /\ proc.fate = "exits"
    /\ \E err \in DOMAIN ErrTexts :
          LET rejected == StderrRejected[err]
              marked == StderrMarked[err]
          IN  /\ \E code \in ExitCodes, out \in DOMAIN OutTexts :
                    Exited(code, 0, 0, out, err)
              /\ IF rejected
                 THEN all_passed' = FALSE /\ recognized' = FALSE
                 ELSE all_passed' = all_passed /\ recognized' = TRUE
              /\ numRejected' = numRejected + (IF marked THEN 1 ELSE 0)
    /\ flagIdx' = flagIdx + 1
    /\ pc' = "t4_loop"
    /\ UNCHANGED << cur, results, ret, passed, total, exitStatus, binary,
                    artifact, attempts, how, executed,
                    report, world, run, prev, artifact0, creations >>

\* line 105: return all_passed
FlagsReturn ==
    /\ pc = "t4_loop"
    /\ flagIdx > NumFlags
    /\ Return(all_passed)
    /\ UNCHANGED << cur, results, all_passed, flagIdx, passed, total,
                    exitStatus, binary, artifact, proc, inv, attempts,
                    executed, recognized, numRejected,
                    report, world, run, prev, artifact0, creations >>

(***************************************************************************)
(* Test 5: test_simple_compilation, lines 107-137.                         *)
(***************************************************************************)
\* a creation moved into the try and made exclusive, open(test_file, "x"):
\* a file already there makes the check fail, and the finally removes it
SmokeCreate_Exclusive ==
    /\ pc = "t5"
    /\ \E fault \in DiskFaults :
          /\ FaultAllowed(world, fault)
          /\ IF artifact # "absent"
             THEN /\ artifact' = Finally(artifact)
                  /\ creations' = creations
                  /\ Return(FALSE)
             ELSE \/ /\ fault = "none"
                     /\ artifact' = "written"
                     /\ creations' = creations + 1
                     /\ pc' = "t5_try"
                     /\ UNCHANGED << how, ret >>
                  \/ /\ fault = "open"
                     /\ artifact' = artifact
                     /\ creations' = creations
                     /\ Raise
                  \/ /\ fault = "write"
                     /\ artifact' = "empty"
                     /\ creations' = creations + 1
                     /\ Raise
    /\ UNCHANGED << cur, results, all_passed, flagIdx, passed, total,
                    exitStatus, binary, proc, inv, attempts, executed,
                    recognized, numRejected,
                    report, world, run, prev, artifact0 >>

\* a target started inside the with block: the text is still in the
\* buffer of the open file when the target reads it
SmokeCreate_Unflushed ==
    /\ pc = "t5"
    /\ \E fault \in DiskFaults :
          /\ FaultAllowed(world, fault)
          /\ \/ /\ fault = "none"
                /\ artifact' = "empty"
                /\ creations' = creations + 1
                /\ pc' = "t5_try"
                /\ UNCHANGED << how, ret >>
             \/ /\ fault = "open"
                /\ artifact' = artifact
                /\ creations' = creations
                /\ Raise
             \/ /\ fault = "write"
                /\ artifact' = "empty"
                /\ creations' = creations + 1
                /\ Raise
    /\ UNCHANGED << cur, results, all_passed, flagIdx, passed, total,
                    exitStatus, binary, proc, inv, attempts, executed,
                    recognized, numRejected,
                    report, world, run, prev, artifact0 >>

\* lines 112-118: with open(test_file, "w") as f: f.write(...).  The
\* statement is outside the try of line 120: when open() fails the file is
\* left as it was, when the write or the close fails the file has been
\* created or truncated, and in both cases the exception leaves the action.
SmokeCreate ==
    /\ pc = "t5"
    /\ \E fault \in DiskFaults :
          /\ FaultAllowed(world, fault)
          /\ \/ /\ fault = "none"
                /\ artifact' = "written"
                /\ creations' = creations + 1
                /\ pc' = "t5_try"
                /\ UNCHANGED << how, ret >>
             \/ /\ fault = "open"
                /\ artifact' = artifact
                /\ creations' = creations
                /\ Raise
             \/ /\ fault = "write"
                /\ artifact' = "empty"
                /\ creations' = creations + 1
                /\ Raise
    /\ UNCHANGED << cur, results, all_passed, flagIdx, passed, total,
                    exitStatus, binary, proc, inv, attempts, executed,
                    recognized, numRejected,
                    report, world, run, prev, artifact0 >>

\* lines 122-123: subprocess.run([...], timeout=10); when the child cannot
\* be started, lines 131-137 run at once
SmokeSpawn ==
    /\ pc = "t5_try"
    /\ Called(test_file)
    /\ IF CanStart(binary)
       THEN /\ Started(test_file, SmokeTimeout)
            /\ pc' = "wait"
            /\ UNCHANGED << inv, how, ret, artifact >>
       ELSE /\ NotStarted(test_file)
            /\ Return(FALSE)
            /\ artifact' = Finally(artifact)
    /\ UNCHANGED << cur, results, all_passed, flagIdx, passed, total,
                    exitStatus, binary, executed, recognized, numRejected,
                    report, world, run, prev, artifact0, creations >>

\* lines 126-127, then 134-137
SmokeComplete ==
    /\ Waiting(5)
    /\ proc.fate = "exits"
    /\ \E code \in ExitCodes :
          /\ Exited(code, 0, 0, 1, 1)
          /\ Return(SmokeResult(code))
    /\ artifact' = Finally(artifact)
    /\ UNCHANGED << cur, results, all_passed, flagIdx, passed, total,
                    exitStatus, binary, attempts, executed, recognized,
                    numRejected,
                    report, world, run, prev, artifact0, creations >>

\* lines 128-130, then 134-137: the bound of line 123 has passed, the child
\* is killed and subprocess.TimeoutExpired is raised inside the try
SmokeTimedOut ==
    /\ Waiting(5)
    /\ proc.timeout # NoTimeout
    /\ proc.fate = "hangs"
    /\ inv' = [NoInv EXCEPT !.test = cur, !.arg = proc.arg, !.kind = "timeout"]
    /\ proc' = NoProc
    /\ Return(FALSE)
    /\ artifact' = Finally(artifact)
    /\ UNCHANGED << cur, results, all_passed, flagIdx, passed, total,
                    exitStatus, binary, attempts, executed, recognized,
                    numRejected,
                    report, world, run, prev, artifact0, creations >>

(***************************************************************************)
(* The program.                                                            *)
(***************************************************************************)
Next ==
    \/ StartTest
    \/ RecordReturn
    \/ RecordException
    \/ Summarize
    \/ MainExit
    \/ TestBinaryExists
    \/ HelpSpawn
    \/ HelpComplete
    \/ FeatureSpawn
    \/ FeatureComplete
    \/ FlagsBegin
    \/ FlagSpawn
    \/ FlagComplete
    \/ FlagsReturn
    \/ SmokeCreate
    \/ SmokeSpawn
    \/ SmokeComplete
    \/ SmokeTimedOut

Spec == Init /\ [][Next]_vars

\* The script is started again after it has exited: a new process, the
\* same disk, the same world.
Rerun ==
    /\ pc = "exited"
    /\ run < MaxRuns
    /\ run' = run + 1
    /\ prev' = [results |-> results, exitStatus |-> exitStatus, artifact0 |-> artifact0]
    /\ artifact0' = artifact
    /\ pc' = "loop"
    /\ cur' = 1
    /\ results' = <<>>
    /\ ret' = FALSE
    /\ all_passed' = TRUE
    /\ flagIdx' = 1
    /\ passed' = 0
    /\ total' = 0
    /\ exitStatus' = <<>>
    /\ proc' = NoProc
    /\ inv' = NoInv
    /\ attempts' = <<>>
    /\ how' = [t \in TestIds |-> "pending"]
    /\ executed' = 0
    /\ recognized' = TRUE
    /\ numRejected' = 0
    /\ report' = <<>>
    /\ creations' = 0
    /\ UNCHANGED << binary, artifact, world >>

RerunNext == Next \/ Rerun

\* consecutive runs against an unchanged, deterministic target
RerunSpec == FixedInit /\ [][RerunNext]_vars

\* Every step the harness or a child that will exit can take is eventually
\* taken: the interpreter runs on, a child that exits does exit, and the
\* bound of a bounded wait does pass.  A child that never exits and is
\* waited for without a bound leaves no step to take.
FairSpec == Spec /\ WF_vars(Next)

(***************************************************************************)
(* Reading the state.                                                      *)
(***************************************************************************)
HasEntry(name) == \E i \in 1..Len(results) : results[i].name = name
EntriesOf(name) == {i \in 1..Len(results) : results[i].name = name}
ValueOf(name) == results[CHOOSE i \in 1..Len(results) : results[i].name = name].value

EndedAs(kind) == {t \in TestIds : how[t] = kind}
SummaryComputed == pc \in {"summary", "exited"}
Exitted == pc = "exited"

(***************************************************************************)
(* C1.  When the summary is computed the results hold exactly one entry    *)
(* for each of the five registered tests, whatever each action did         *)
(* (returned true, returned false or raised): five actions were started,   *)
(* five entries are counted, none was skipped.                             *)
(***************************************************************************)
C1_OneEntryPerTest ==
    SummaryComputed =>
        /\ executed = NumTests
        /\ NumTests = 5
        /\ total = NumTests
        /\ Len(results) = NumTests
        /\ \A t \in TestIds : Cardinality(EntriesOf(tests[t])) = 1
        /\ \A t \in TestIds : how[t] # "pending"

\* a summary after a run in which one action returned true, one returned
\* false and one raised
C1_Witness ==
    /\ pc = "summary"
    /\ EndedAs("true") # {}
    /\ EndedAs("false") # {}
    /\ EndedAs("raised") # {}

(***************************************************************************)
(* C2.  A test whose action raised is recorded with outcome False and the  *)
(* run goes on with the next test; with five tests of which four return    *)
(* true and one raises, the results have five entries, passed = 4,         *)
(* total = 5 and the exit status is not 0.                                 *)
(***************************************************************************)
C2_RaisedIsolated ==
    /\ \A t \in TestIds :
          (how[t] = "raised" /\ cur > t) =>
              /\ HasEntry(tests[t])
              /\ ValueOf(tests[t]) = FALSE
    /\ Exitted => \A t \in TestIds : how[t] # "pending"
    /\ (Exitted /\ Cardinality(EndedAs("raised")) = 1
                /\ Cardinality(EndedAs("true")) = 4) =>
              /\ Len(results) = 5
              /\ passed = 4
              /\ total = 5
              /\ exitStatus # <<0>>

\* the process has exited after four actions returned true and one raised
C2_Witness ==
    /\ Exitted
    /\ Cardinality(EndedAs("raised")) = 1
    /\ Cardinality(EndedAs("true")) = 4

(***************************************************************************)
(* C3.  The exit status is 0 exactly when every recorded outcome is true,  *)
(* that is when passed = total with passed the number of true outcomes     *)
(* and total the number of entries; otherwise it is 1.                     *)
(***************************************************************************)
C3_ExitStatus ==
    Exitted =>
        /\ exitStatus \in {<<0>>, <<1>>}
        /\ passed = Cardinality({i \in 1..Len(results) : results[i].value = TRUE})
        /\ total = Len(results)
        /\ (exitStatus = <<0>>) <=> (\A i \in 1..Len(results) : results[i].value)
        /\ (exitStatus = <<0>>) <=> (passed = total)
        /\ (\E t \in TestIds : how[t] \in {"false", "raised"}) => exitStatus = <<1>>

\* a run that exits with status 1 although some test passed
C3_Witness ==
    /\ Exitted
    /\ exitStatus = <<1>>
    /\ passed >= 1
    /\ passed < total

(***************************************************************************)
(* C4.  Once test_simple_compilation has handed control back to the        *)
(* orchestrator, by returning or by raising, on whichever path (target     *)
(* completed, could not be started, timed out, or the artifact could not   *)
(* be created or written), test_simple_compile.to does not exist.          *)
(***************************************************************************)
C4_ArtifactRemoved ==
    how[5] # "pending" => artifact = "absent"

(***************************************************************************)
(* C5.  Every wait for the target is bounded, so every run of the suite    *)
(* eventually reaches the summary and exits, also when the target never    *)
(* exits on some invocation.                                               *)
(***************************************************************************)
C5_RunTerminates == <>(pc = "exited")

ProbeEnded == inv.test = 4 /\ inv.kind = "exit"

C7_FlagRecognition ==
    /\ ProbeEnded => (recognized <=> ~StderrMarked[inv.err])
    /\ (ProbeEnded /\ ErrTexts[inv.err] = MixedCaseText) =>
           /\ ~recognized
           /\ ~all_passed
           /\ how[4] # "true"
    /\ how[4] \in {"true", "false"} =>
           /\ flagIdx = NumFlags + 1
           /\ NumFlags = 10
           /\ (how[4] = "true") <=> (numRejected = 0)

\* the check has returned false because of one probe only, the last one,
\* which exited with 0 and wrote "Unknown Option" to stderr
C7_Witness ==
    /\ how[4] = "false"
    /\ numRejected = 1
    /\ ProbeEnded
    /\ ErrTexts[inv.err] = MixedCaseText
    /\ inv.code = 0

(***************************************************************************)
(* C8.  When the --help output holds all eleven required substrings and    *)
(* the exit code is 0, test_help_output and test_version_features both     *)
(* return true; when one required substring is missing, or printed in      *)
(* another letter case, test_version_features returns false and            *)
(* test_help_output still returns true.                                    *)
(***************************************************************************)
HelpEnded(t) == inv.test = t /\ inv.kind = "exit"
InvHelp == <<inv.omit, inv.lower>>

C8_HelpAndFeatures ==
    /\ (HelpEnded(2) /\ inv.code = 0 /\ FullHelp(InvHelp)) => how[2] = "true"
    /\ (HelpEnded(3) /\ inv.code = 0 /\ FullHelp(InvHelp)) => how[3] = "true"
    /\ (HelpEnded(3) /\ ~FullHelp(InvHelp)) => how[3] = "false"
    /\ (HelpEnded(2) /\ inv.code = 0 /\ ~FullHelp(InvHelp)) => how[2] = "true"

\* the help check has passed and the feature check has just failed on a
\* help text that exits 0 and lacks only the last feature
C8_Witness ==
    /\ how[2] = "true"
    /\ how[3] = "false"
    /\ HelpEnded(3)
    /\ inv.code = 0
    /\ inv.omit = Len(required_features)

(***************************************************************************)
(* C9.  As claimed: test_help_output passes only if the exit code is 0     *)
(* and all eleven required substrings are in the help output.              *)
(***************************************************************************)
C9_Original ==
    (HelpEnded(2) /\ how[2] = "true") => (inv.code = 0 /\ FullHelp(InvHelp))

(***************************************************************************)
(* C9, amended.  test_help_output invokes the target with --help and       *)
(* passes exactly when the exit code is 0; the output is not looked at.    *)
(***************************************************************************)
C9_HelpExitCodeOnly ==
    HelpEnded(2) =>
        /\ inv.arg = "--help"
        /\ (how[2] = "true") <=> (inv.code = ExpectedReturncode)
        /\ (how[2] = "false") <=> (inv.code # ExpectedReturncode)

\* the help check has passed on a help text that lacks a required feature
C9_Witness ==
    /\ HelpEnded(2)
    /\ how[2] = "true"
    /\ inv.omit # 0

(***************************************************************************)
(* C10.  With ./build/tocin absent, test_binary_exists returns false       *)
(* without any process invocation, the four other checks each try to       *)
(* start the binary, in order, and are each recorded as failed, the smoke  *)
(* artifact is absent afterwards and the exit status is not 0.             *)
(***************************************************************************)
AttemptTests == [i \in 1..Len(attempts) |-> attempts[i].test]

C10_MissingBinary ==
    (binary = "absent" /\ Exitted) =>
        /\ how[1] = "false"
        /\ AttemptTests = <<2, 3, 4, 5>>
        /\ Len(results) = NumTests
        /\ \A i \in 1..Len(results) : results[i].value = FALSE
        /\ artifact = "absent"
        /\ exitStatus # <<0>>

(***************************************************************************)
(* C11.  The test actions run one at a time in registration order: the     *)
(* action that runs is the next one of the registry and starts only after  *)
(* the outcomes of all earlier tests have been recorded; the recorded      *)
(* outcomes stand in registration order, and the summary lists them in     *)
(* that order, and only once all five have been recorded.                  *)
(***************************************************************************)
InAction == pc \notin {"loop", "returned", "raised", "summary", "exited"}
Entry == <<"t1", "t2", "t3", "t4", "t5">>

C11_RegistrationOrder ==
    /\ \A i \in 1..Len(results) : results[i].name = tests[i]
    /\ InAction =>
          /\ cur \in TestIds
          /\ executed = cur
          /\ Len(results) = cur - 1
          /\ \A t \in TestIds : (how[t] # "pending") <=> (t < cur)
          /\ \A t \in TestIds : pc = Entry[t] => cur = t
          /\ pc = "wait" => proc.test = cur
    /\ pc = "loop" => (executed = cur - 1 /\ Len(results) = cur - 1)
    /\ ~SummaryComputed => report = <<>>
    /\ SummaryComputed =>
          /\ Len(report) = NumTests
          /\ \A t \in TestIds :
                /\ report[t].name = tests[t]
                /\ (report[t].status = "PASSED") <=> (how[t] = "true")
                /\ (report[t].status = "FAILED") <=> (how[t] \in {"false", "raised"})

\* a summary that lists a pass, a failure and a pass again, in that order
C11_Witness ==
    /\ pc = "summary"
    /\ report[1].status = "PASSED"
    /\ report[2].status = "FAILED"
    /\ report[5].status = "PASSED"

(***************************************************************************)
(* C12.  When the script is run again against the same deterministic       *)
(* target on the same disk, every test gets the outcome it got in the run  *)
(* before and the exit status is the same, whatever the earlier run did    *)
(* to test_simple_compile.to.                                              *)
(***************************************************************************)
C12_SameOutcomesAgain ==
    run > 1 =>
        /\ \A i \in 1..Len(results) :
              /\ i <= Len(prev.results)
              /\ results[i] = prev.results[i]
        /\ Exitted =>
              /\ results = prev.results
              /\ exitStatus = prev.exitStatus

\* a second run has ended; the first run met a file test_simple_compile.to
\* and removed it, the second met none, and both passed every test
C12_Witness ==
    /\ run = 2
    /\ Exitted
    /\ prev.artifact0 = "foreign"
    /\ artifact0 = "absent"
    /\ exitStatus = <<0>>
    /\ prev.exitStatus = <<0>>

(***************************************************************************)
(* C13.  A run creates test_simple_compile.to once, never twice, exactly   *)
(* once when the smoke check reaches a verdict, and leaves the disk as it  *)
(* found it: when the process has exited the file is in the state it had   *)
(* when the run began, also when it existed before the run.                *)
(***************************************************************************)
C13_DiskAsBefore ==
    Exitted =>
        /\ creations <= 1
        /\ how[5] \in {"true", "false"} => creations = 1
        /\ artifact = artifact0

(***************************************************************************)
(* C14.  When the target can be started, test_compilation_flags calls it   *)
(* once per flag, for all ten flags in the listed order, whether or not    *)
(* an earlier flag was rejected; and once a flag has been rejected the     *)
(* aggregate is false and stays false whatever the later flags do.         *)
(***************************************************************************)
ArgsOf(t) ==
    LET mine == SelectSeq(attempts, LAMBDA a : a.test = t)
    IN  [i \in 1..Len(mine) |-> mine[i].arg]
InFlags == cur = 4 /\ pc \in {"t4_loop", "wait", "returned"}

C14_EveryFlagProbed ==
    /\ (cur = 4 /\ pc = "t4_loop") => ArgsOf(4) = SubSeq(flags_to_test, 1, flagIdx - 1)
    /\ (cur = 4 /\ pc = "wait") => ArgsOf(4) = SubSeq(flags_to_test, 1, flagIdx)
    /\ how[4] \in {"true", "false"} => ArgsOf(4) = flags_to_test
    /\ (InFlags /\ numRejected > 0) => ~all_passed
    /\ (InFlags /\ numRejected = 0) => all_passed

\* the check has returned false after ten probes of which one was rejected,
\* and not the last one
C14_Witness ==
    /\ how[4] = "false"
    /\ cur = 4
    /\ numRejected = 1
    /\ recognized
    /\ Len(ArgsOf(4)) = 10

(***************************************************************************)
(* C15.  In test_simple_compilation the file is created, written and       *)
(* closed before the target is called on it, it is there with its whole    *)
(* text as long as the target runs, and it is deleted only in the step in  *)
(* which the call ends: the target has exited, could not be started, or    *)
(* was timed out and killed.                                               *)
(***************************************************************************)
SmokeCallEnds ==
    /\ inv'.test = 5
    /\ inv'.kind \in {"exit", "nostart", "timeout"}
    /\ proc' = NoProc
    /\ pc' = "returned"

C15_CreateInvokeDelete ==
    /\ []((pc = "t5_try" \/ Waiting(5)) => artifact = "written")
    /\ [][(cur = 5 /\ attempts' # attempts) => (pc = "t5_try" /\ artifact = "written")]_vars
    /\ [][(cur = 5 /\ InAction /\ artifact # "absent" /\ artifact' = "absent")
              => (pc \in {"t5_try", "wait"} /\ SmokeCallEnds)]_vars

\* the file has been deleted after the target, called on it, was timed out
C15_Witness ==
    /\ how[5] = "false"
    /\ inv.test = 5
    /\ inv.kind = "timeout"
    /\ creations = 1
    /\ artifact = "absent"

(***************************************************************************)
(* C16.  The results only grow, and only in the orchestrator: an entry     *)
(* once stored is never changed or removed, no step of a test action       *)
(* changes the results, and the number of entries is the number of tests   *)
(* whose action has ended (the one whose outcome lines 156-159 are about   *)
(* to store not yet counted), so that passed <= total <= 5 all along.      *)
(***************************************************************************)
Ended == {t \in TestIds : how[t] # "pending"}
BeingStored == IF pc \in {"returned", "raised"} THEN 1 ELSE 0

C16_AppendOnly ==
    /\ [](/\ Len(results) = Cardinality(Ended) - BeingStored
          /\ CountPassed(results) <= Len(results)
          /\ Len(results) <= 5
          /\ passed <= total
          /\ total <= 5)
    /\ [][/\ Len(results') >= Len(results)
          /\ Len(results') <= Len(results) + 1
          /\ \A i \in 1..Len(results) : results'[i] = results[i]
          /\ pc \notin {"returned", "raised"} => results' = results]_vars

\* the fourth action is running, three outcomes are stored, two of them true
C16_Witness ==
    /\ pc = "wait"
    /\ cur = 4
    /\ Len(results) = 3
    /\ CountPassed(results) = 2

=============================================================================
